---------------------------- MODULE Spec2Model ----------------------------
(***************************************************************************)
(* Model of the two units of the repository:                               *)
(*   - the script skeleton  (src/src/python/script-template.py):           *)
(*     validate_inputs, process_data, cleanup_resources and the            *)
(*     try / except / finally of main, over a small file system;           *)
(*   - the environment validator (src/src/python/validation_functions.py): *)
(*     ScriptValidator's check methods, validate_system and                *)
(*     prompt_with_timeout with its alarm signal.                          *)
(* Three specifications share the module: SpecMain (one run of main),      *)
(* SpecValidator (check calls on one validator) and SpecPrompt (calls of   *)
(* prompt_with_timeout and the code running after them).                   *)
(***************************************************************************)
EXTENDS Integers, Sequences, FiniteSets, TLC

VARIABLES
    \* ---- script skeleton -------------------------------------------------
    fs,             \* the file system: node -> "none" | "file" | "dir"
    ro,             \* directories in which no entry can be created
    written,        \* nodes whose contents this run has (re)written
    fs0,            \* the file system when main started (history)
    args,           \* the parsed arguments: input, output, force
    pc,             \* position inside main
    exc,            \* the exception travelling to main's handlers, or "none"
    vres,           \* how validate_inputs ended: "none" until it ends
    processInvoked, \* process_data has been called
    cleanupCount,   \* number of calls of cleanup_resources
    ret,            \* the value of the return statement main has reached
    exitCode,       \* value returned by main, -1 until it returns
    \* ---- environment validator -------------------------------------------
    validation_errors, \* ScriptValidator.validation_errors (the tally)
    call,           \* the last call made on the validator and how it ended
    sys,            \* the validate_system call in progress, if any
    failedCalls,    \* version/command/path/OS/disk calls that returned FALSE
    missingNames,   \* module names reported missing by validate_imports
    \* ---- prompt_with_timeout ---------------------------------------------
    ppc,            \* position inside prompt_with_timeout / its caller
    alarm,          \* seconds until the pending SIGALRM, 0 when none pending
    handlerSet,     \* timeout_handler is installed for SIGALRM
    platform,       \* "posix" (signal.SIGALRM exists) or "windows"
    pargs,          \* arguments of the current prompt call: timeout, default
    lineRead,       \* the line input() returned in this call, "" if none
    caught,         \* the exception the prompt's except clause caught
    presult,        \* how the last prompt call ended
    lateTimeout,    \* TimeoutError was raised in the code after the last prompt
    prompts         \* number of prompt calls started

mainVars == <<fs, ro, written, fs0, args, pc, exc, vres, processInvoked,
              cleanupCount, ret, exitCode>>
validatorVars == <<validation_errors, call, sys, failedCalls, missingNames>>
promptVars == <<ppc, alarm, handlerSet, platform, pargs, lineRead, caught,
                presult, lateTimeout, prompts>>
vars == <<mainVars, validatorVars, promptVars>>

(***************************************************************************)
(*                         SCRIPT SKELETON                                 *)
(***************************************************************************)

\* The file system below the working directory.  A node is the sequence of
\* names leading to it from the working directory, which is <<>> itself.
Cwd == << >>
Nodes == { <<"in">>, <<"f">>, <<"d">>, <<"d", "f">>, <<"d", "e">>,
           <<"d", "e", "f">> }
Kinds == {"none", "file", "dir"}

\* Kind of a node; the working directory always is a directory.
Kind(F, n) == IF n = Cwd THEN "dir" ELSE IF n \in Nodes THEN F[n] ELSE "none"

Front(s) == SubSeq(s, 1, Len(s) - 1)
Last(s) == s[Len(s)]

\* A file system is well formed when every entry lives in a directory.
WellFormed(F) == \A n \in Nodes : F[n] # "none" => Kind(F, Front(n)) = "dir"

\* Paths as the program holds them (pathlib keeps ".." components as given).
InputPaths == { <<"in">>, <<"d">> }
OutputPaths == { <<"f">>, <<"d", "f">>, <<"d", "e", "f">>, <<"d", "..", "f">> }

\* What the operating system answers for a path: it walks the components
\* from the working directory; every component but the last must lead
\* through an existing directory, ".." steps to the parent of the directory
\* reached so far.
RECURSIVE Walk(_, _, _)
Walk(F, cur, rest) ==
    IF rest = << >> THEN
        [err |-> IF Kind(F, cur) = "none" THEN "ENOENT" ELSE "ok", node |-> cur]
    ELSE IF Kind(F, cur) = "none" THEN [err |-> "ENOENT", node |-> cur]
    ELSE IF Kind(F, cur) = "file" THEN [err |-> "ENOTDIR", node |-> cur]
    ELSE Walk(F,
              IF Head(rest) = ".."
                  THEN (IF cur = Cwd THEN Cwd ELSE Front(cur))
                  ELSE Append(cur, Head(rest)),
              Tail(rest))

\* os.stat(path)
Stat(F, path) == Walk(F, Cwd, path)

\* Path.exists(): stat succeeded; ENOENT and ENOTDIR are swallowed.
Exists(F, path) == Stat(F, path).err = "ok"

\* Path.is_dir()
IsDir(F, path) ==
    LET s == Stat(F, path) IN s.err = "ok" /\ Kind(F, s.node) = "dir"

\* Path.parent: purely lexical, the path without its last component.
Parent(path) == IF path = << >> THEN << >> ELSE Front(path)

\* os.mkdir(path): the error it raises, or "ok" with the node to create.
OsMkdir(F, R, path) ==
    IF path = << >> THEN [err |-> "FileExistsError", node |-> Cwd]
    ELSE
        LET p == Stat(F, Front(path)) IN
        IF p.err = "ENOENT" THEN [err |-> "FileNotFoundError", node |-> Cwd]
        ELSE IF p.err = "ENOTDIR" \/ Kind(F, p.node) # "dir"
            THEN [err |-> "NotADirectoryError", node |-> Cwd]
        ELSE IF Last(path) = ".." THEN [err |-> "FileExistsError", node |-> Cwd]
        ELSE IF Kind(F, Append(p.node, Last(path))) # "none"
            THEN [err |-> "FileExistsError", node |-> Cwd]
        ELSE IF p.node \in R THEN [err |-> "PermissionError", node |-> Cwd]
        ELSE [err |-> "ok", node |-> Append(p.node, Last(path))]

\* Path.mkdir(parents, exist_ok) as pathlib runs it: try os.mkdir; on
\* FileNotFoundError create the parents first and try again; any other
\* OSError is forgiven only if exist_ok and the path is a directory.
RECURSIVE Mkdir(_, _, _, _, _)
Mkdir(F, R, path, parents, exist_ok) ==
    LET m == OsMkdir(F, R, path) IN
    IF m.err = "ok" THEN [fs |-> [F EXCEPT ![m.node] = "dir"], err |-> "none"]
    ELSE IF m.err = "FileNotFoundError" THEN
        IF ~parents \/ Parent(path) = path THEN [fs |-> F, err |-> m.err]
        ELSE
            LET up == Mkdir(F, R, Parent(path), TRUE, TRUE) IN
            IF up.err # "none" THEN up
            ELSE Mkdir(up.fs, R, path, FALSE, exist_ok)
    ELSE IF ~exist_ok \/ ~IsDir(F, path) THEN [fs |-> F, err |-> m.err]
    ELSE [fs |-> F, err |-> "none"]

\* open(path, 'w'): the error it raises, or "ok" with the file's node.
OpenForWrite(F, R, path) ==
    LET p == Stat(F, Front(path)) IN
    IF p.err = "ENOENT" THEN [err |-> "FileNotFoundError", node |-> Cwd]
    ELSE IF p.err = "ENOTDIR" \/ Kind(F, p.node) # "dir"
        THEN [err |-> "NotADirectoryError", node |-> Cwd]
    ELSE IF Last(path) = ".." \/ Kind(F, Append(p.node, Last(path))) = "dir"
        THEN [err |-> "IsADirectoryError", node |-> Cwd]
    ELSE IF Kind(F, Append(p.node, Last(path))) = "none" /\ p.node \in R
        THEN [err |-> "PermissionError", node |-> Cwd]
    ELSE [err |-> "ok", node |-> Append(p.node, Last(path))]

\* The exception classes of the model that derive from Exception;
\* KeyboardInterrupt derives from BaseException only.
ExceptionClasses == {"ValueError", "FileExistsError", "FileNotFoundError",
                     "NotADirectoryError", "IsADirectoryError",
                     "PermissionError"}
OSErrors == ExceptionClasses \ {"ValueError"}

\* ---- validate_inputs ----------------------------------------------------

\* "if not input_path.exists()": the input is rejected.
InputRejected(F, input) == ~Exists(F, input)

\* "if output_path.exists() and not force": the output is rejected.
OutputRejected_NoForce(F, output, force) == Exists(F, output)
OutputRejected(F, output, force) == Exists(F, output) /\ ~force

\* validate_inputs, first statement: the existence check of the input.
validate_inputs_input ==
    /\ UNCHANGED <<validatorVars, promptVars>>
    /\ pc = "v_input"
    /\ IF InputRejected(fs, args.input)
         THEN /\ vres' = "ValueError"
              /\ exc' = "ValueError"
              /\ pc' = "except"
         ELSE /\ pc' = "v_mkdir"
              /\ UNCHANGED <<vres, exc>>
    /\ UNCHANGED <<fs, ro, written, fs0, args, processInvoked, cleanupCount,
                   ret, exitCode>>

\* validate_inputs, second statement:
\* output_path.parent.mkdir(parents=True, exist_ok=True).
validate_inputs_mkdir ==
    /\ UNCHANGED <<validatorVars, promptVars>>
    /\ pc = "v_mkdir"
    /\ LET r == Mkdir(fs, ro, Parent(args.output), TRUE, TRUE) IN
         IF r.err = "none"
           THEN /\ fs' = r.fs
                /\ pc' = "v_output"
                /\ UNCHANGED <<vres, exc>>
           ELSE /\ vres' = r.err
                /\ exc' = r.err
                /\ pc' = "except"
                /\ UNCHANGED fs
    /\ UNCHANGED <<ro, written, fs0, args, processInvoked, cleanupCount, ret,
                   exitCode>>

\* validate_inputs, last statements: the overwrite check and "return True".
validate_inputs_output ==
    /\ UNCHANGED <<validatorVars, promptVars>>
    /\ pc = "v_output"
    /\ IF OutputRejected(fs, args.output, args.force)
         THEN /\ vres' = "ValueError"
              /\ exc' = "ValueError"
              /\ pc' = "except"
         ELSE /\ vres' = "True"
              /\ pc' = "process"
              /\ UNCHANGED exc
    /\ UNCHANGED <<fs, ro, written, fs0, args, processInvoked, cleanupCount,
                   ret, exitCode>>

\* ---- process_data -------------------------------------------------------

\* process_data is entered: it logs and sizes up the input.
process_data_start ==
    /\ UNCHANGED <<validatorVars, promptVars>>
    /\ pc = "process"
    /\ processInvoked' = TRUE
    /\ pc' = "p_write"
    /\ UNCHANGED <<fs, ro, written, fs0, args, exc, vres, cleanupCount, ret,
                   exitCode>>

\* process_data writes the result record to the output path and returns, and
\* main reaches "return 0"; a failure of open() is logged and raised again.
process_data_write ==
    /\ UNCHANGED <<validatorVars, promptVars>>
    /\ pc = "p_write"
    /\ LET o == OpenForWrite(fs, ro, args.output) IN
         IF o.err = "ok"
           THEN /\ fs' = [fs EXCEPT ![o.node] = "file"]
                /\ written' = written \cup {o.node}
                /\ ret' = 0
                /\ pc' = "finally"
                /\ UNCHANGED exc
           ELSE /\ exc' = o.err
                /\ pc' = "except"
                /\ UNCHANGED <<fs, written, ret>>
    /\ UNCHANGED <<ro, fs0, args, vres, processInvoked, cleanupCount, exitCode>>

\* ---- main ---------------------------------------------------------------

\* Positions of main inside the try block.
GuardedPcs == {"try", "v_input", "v_mkdir", "v_output", "process", "p_write"}

\* The try block is entered: the start-up lines are logged.
main_try ==
    /\ UNCHANGED <<validatorVars, promptVars>>
    /\ pc = "try"
    /\ pc' = "v_input"
    /\ UNCHANGED <<fs, ro, written, fs0, args, exc, vres, processInvoked,
                   cleanupCount, ret, exitCode>>

\* The user interrupts the run while the try block executes (a
\* KeyboardInterrupt is raised at the current statement).  Interrupts that
\* arrive while an except clause or the finally clause runs are not modelled.
KeyboardInterrupt ==
    /\ UNCHANGED <<validatorVars, promptVars>>
    /\ pc \in GuardedPcs
    /\ exc' = "KeyboardInterrupt"
    /\ pc' = "except"
    /\ UNCHANGED <<fs, ro, written, fs0, args, vres, processInvoked,
                   cleanupCount, ret, exitCode>>

\* The except clauses of main, in their order: KeyboardInterrupt, Exception.
HandlerCode_Swapped(e) == IF e \in ExceptionClasses \cup {"KeyboardInterrupt"}
                          THEN 1 ELSE 130
HandlerCode(e) == IF e = "KeyboardInterrupt" THEN 130
                  ELSE IF e \in ExceptionClasses THEN 1
                  ELSE -1

main_except ==
    /\ UNCHANGED <<validatorVars, promptVars>>
    /\ pc = "except"
    /\ ret' = HandlerCode(exc)
    /\ pc' = "finally"
    /\ UNCHANGED <<fs, ro, written, fs0, args, exc, vres, processInvoked,
                   cleanupCount, exitCode>>

\* cleanup_resources(logger): logs two lines, nothing else.
cleanup_resources == cleanupCount' = cleanupCount + 1

\* The finally clause of main.
main_finally_OnSuccessOnly ==
    /\ UNCHANGED <<validatorVars, promptVars>>
    /\ pc = "finally"
    /\ IF exc = "none" THEN cleanup_resources ELSE UNCHANGED cleanupCount
    /\ pc' = "return"
    /\ UNCHANGED <<fs, ro, written, fs0, args, exc, vres, processInvoked, ret,
                   exitCode>>
main_finally ==
    /\ UNCHANGED <<validatorVars, promptVars>>
    /\ pc = "finally"
    /\ cleanup_resources
    /\ pc' = "return"
    /\ UNCHANGED <<fs, ro, written, fs0, args, exc, vres, processInvoked, ret,
                   exitCode>>

\* main hands the value of its return statement to its caller.
main_return ==
    /\ UNCHANGED <<validatorVars, promptVars>>
    /\ pc = "return"
    /\ exitCode' = ret
    /\ pc' = "done"
    /\ UNCHANGED <<fs, ro, written, fs0, args, exc, vres, processInvoked,
                   cleanupCount, ret>>

(***************************************************************************)
(*                       ENVIRONMENT VALIDATOR                             *)
(***************************************************************************)

\* A Python argument that may be None is a set with at most one element:
\* {} is None, {x} is the value x.
None == {}
Some(x) == {x}
Value(opt) == CHOOSE x \in opt : TRUE
\* "opt or default": None and the empty list are both falsy.
OrElse(opt, default) ==
    IF opt = None THEN default
    ELSE IF Value(opt) = << >> THEN default ELSE Value(opt)
\* "if opt:" on an optional list
Truthy(opt) == opt # None /\ Value(opt) # << >>

\* How a method ends: it returns ret with the tally at ve, or raises exc.
Return(ve, r) == [ve |-> ve, ret |-> r, exc |-> "none"]
Raise(ve, e) == [ve |-> ve, ret |-> FALSE, exc |-> e]

\* Python's ordering of (major, minor) tuples.
TupleGE(a, b) == a[1] > b[1] \/ (a[1] = b[1] /\ a[2] >= b[2])

\* validate_python_version(min_version), the interpreter being `current`.
validate_python_version(ve, current, min_version) ==
    IF TupleGE(current, min_version) THEN Return(ve, TRUE)
    ELSE Return(ve + 1, FALSE)

\* validate_command(command, alternatives); shutil.which finds the commands
\* in `avail`.
validate_command(ve, avail, command, alternatives) ==
    LET alts == OrElse(alternatives, << >>) IN
    IF command \in avail THEN Return(ve, TRUE)
    ELSE IF \E i \in 1..Len(alts) : alts[i] \in avail THEN Return(ve, TRUE)
    ELSE Return(ve + 1, FALSE)

\* validate_path(path, path_type, check_writable).  p.stat is what the path
\* is ("denied": stat fails with EACCES, which Path.exists() raises again as
\* PermissionError); p.probe is how creating and removing the probe file
\* goes.
validate_path_TypeUncounted(ve, p, path_type, check_writable) ==
    IF p.stat = "denied" THEN Raise(ve, "PermissionError")
    ELSE IF p.stat = "missing" THEN Return(ve + 1, FALSE)
    ELSE IF path_type = "file" /\ p.stat # "file" THEN Return(ve, FALSE)
    ELSE IF path_type = "directory" /\ p.stat # "dir" THEN Return(ve, FALSE)
    ELSE IF check_writable /\ p.probe # "ok" THEN Return(ve + 1, FALSE)
    ELSE Return(ve, TRUE)
validate_path(ve, p, path_type, check_writable) ==
    IF p.stat = "denied" THEN Raise(ve, "PermissionError")
    ELSE IF p.stat = "missing" THEN Return(ve + 1, FALSE)
    ELSE IF path_type = "file" /\ p.stat # "file" THEN Return(ve + 1, FALSE)
    ELSE IF path_type = "directory" /\ p.stat # "dir" THEN Return(ve + 1, FALSE)
    ELSE IF check_writable /\ p.probe # "ok" THEN Return(ve + 1, FALSE)
    ELSE Return(ve, TRUE)

\* validate_network(host, port, timeout): conn is how create_connection
\* ends; every failure of it is an OSError or socket.timeout.
validate_network(ve, conn) == Return(ve, conn = "connected")

\* validate_imports(modules): the loop over the module names from position
\* i on; imp[m] is how __import__(m) ends, missing the list built so far.
\* Only ImportError is caught.
RECURSIVE import_loop(_, _, _, _, _)
import_loop(ve, imp, modules, i, missing) ==
    IF i > Len(modules) THEN
        [ve |-> ve, ret |-> (missing = << >>), exc |-> "none",
         missing |-> missing]
    ELSE IF imp[modules[i]] = "ok"
        THEN import_loop(ve, imp, modules, i + 1, missing)
    ELSE IF imp[modules[i]] = "ImportError"
        THEN import_loop(ve + 1, imp, modules, i + 1,
                         Append(missing, modules[i]))
    ELSE [ve |-> ve, ret |-> FALSE, exc |-> imp[modules[i]],
          missing |-> missing]

validate_imports(ve, imp, modules) == import_loop(ve, imp, modules, 1, << >>)

\* validate_os(supported_os), platform.system() being current_os.
DefaultSupportedOS == <<"Windows", "Linux", "Darwin">>
InList(x, list) == \E i \in 1..Len(list) : list[i] = x

validate_os(ve, current_os, supported_os) ==
    LET supported == OrElse(supported_os, DefaultSupportedOS) IN
    IF InList(current_os, supported) THEN Return(ve, TRUE)
    ELSE Return(ve + 1, FALSE)

\* validate_disk_space(path, min_gb): d.err is how os.statvfs ends,
\* d.available the free space it reports (in tenths of a gigabyte, as is
\* min_gb).
validate_disk_space(ve, d, min_gb) ==
    IF d.err \in {"OSError", "AttributeError"} THEN Return(ve, TRUE)
    ELSE IF d.available >= min_gb THEN Return(ve, TRUE)
    ELSE Return(ve + 1, FALSE)

\* get_system_info(): Path.cwd() fails when the working directory is gone.
get_system_info(ve, cwdOk) ==
    IF cwdOk THEN Return(ve, TRUE) ELSE Raise(ve, "FileNotFoundError")

\* The end of validate_system: "if self.validation_errors > 0".
system_verdict_OffByOne(ve) == ~(ve > 1)
system_verdict(ve) == ~(ve > 0)

\* ---- bounds and the values the calls are tried with ---------------------

\* No call is started on a validator whose tally has reached MaxTally.
MaxTally == 2

CurrentVersions == { <<3, 6>>, <<3, 11>> }
MinVersions == { <<0, 0>>, <<3, 7>> }
Commands == {"git", "python"}
CommandLists == { None, Some(<< >>), Some(<<"git", "python">>) }
Alternatives == { None, Some(<<"python">>) }
Modules == {"os", "yaml"}
ImportOutcomes == {"ok", "ImportError", "RuntimeError"}
ModuleLists == { None, Some(<<"os">>), Some(<<"yaml", "os">>) }
OSNames == {"Linux", "FreeBSD"}
OSLists == { None, Some(<< >>), Some(<<"Linux">>), Some(<<"Windows", "Darwin">>) }
PathEnvs == [stat : {"missing", "file", "dir", "denied"},
             probe : {"ok", "touch_fails", "unlink_fails"}]
PathTypes == {"any", "file", "directory"}
Connections == {"connected", "refused", "timeout", "unresolved"}
DiskEnvs == [err : {"none", "OSError", "AttributeError"}, available : {0, 5}]
MinGbs == {1, 10}

\* ---- calls on the validator ---------------------------------------------

SysIdle == [pos |-> "idle", min_python_version |-> <<0, 0>>,
            required_commands |-> None, required_modules |-> None,
            supported_os |-> None, i |-> 1, before |-> 0, fails |-> 0,
            miss |-> 0, osApplied |-> FALSE]

CallRecord(name, r, before, oscur, ossup) ==
    [name |-> name, ret |-> r.ret, exc |-> r.exc, before |-> before,
     os_current |-> oscur, os_supported |-> ossup,
     fails |-> 0, miss |-> 0, osGiven |-> None, osApplied |-> FALSE]

\* The version, command, path, OS and disk-space checks.
CountedChecks == {"validate_python_version", "validate_command",
                  "validate_path", "validate_os", "validate_disk_space"}

\* Book-keeping of a finished check call: the tally as the method left it,
\* and the counts of failed calls and of reported module names.
Tallied(name, r, nmiss) ==
    /\ validation_errors' = r.ve
    /\ failedCalls' = failedCalls +
           (IF name \in CountedChecks /\ r.exc = "none" /\ ~r.ret THEN 1 ELSE 0)
    /\ missingNames' = missingNames + nmiss

\* A check method called by the validator's owner ends.
LeafDone(name, r, nmiss, oscur, ossup) ==
    /\ Tallied(name, r, nmiss)
    /\ call' = CallRecord(name, r, validation_errors, oscur, ossup)
    /\ UNCHANGED sys

\* validate_system ends, returning ret or raising e.
SysCallRecord(r) ==
    [name |-> "validate_system", ret |-> r.ret, exc |-> r.exc,
     before |-> sys.before, os_current |-> "", os_supported |-> None,
     fails |-> failedCalls' - sys.fails, miss |-> missingNames' - sys.miss,
     osGiven |-> sys.supported_os, osApplied |-> sys.osApplied]

\* A check method called by validate_system ends; validate_system goes on
\* at `next`, or ends with the exception the check raised.
SysLeaf(name, r, nmiss, oscur, ossup, next) ==
    /\ Tallied(name, r, nmiss)
    /\ IF r.exc = "none"
         THEN /\ call' = CallRecord(name, r, validation_errors, oscur, ossup)
              /\ sys' = next
         ELSE /\ call' = SysCallRecord(r)
              /\ sys' = SysIdle

CanCall == sys.pos = "idle" /\ validation_errors < MaxTally

call_validate_python_version ==
    /\ UNCHANGED <<mainVars, promptVars>>
    /\ CanCall
    /\ \E cur \in CurrentVersions, min \in MinVersions :
         LeafDone("validate_python_version",
                  validate_python_version(validation_errors, cur, min),
                  0, "", None)

call_validate_command ==
    /\ UNCHANGED <<mainVars, promptVars>>
    /\ CanCall
    /\ \E avail \in SUBSET Commands, c \in Commands, alts \in Alternatives :
         LeafDone("validate_command",
                  validate_command(validation_errors, avail, c, alts),
                  0, "", None)

call_validate_path ==
    /\ UNCHANGED <<mainVars, promptVars>>
    /\ CanCall
    /\ \E p \in PathEnvs, t \in PathTypes, w \in BOOLEAN :
         LeafDone("validate_path",
                  validate_path(validation_errors, p, t, w), 0, "", None)

call_validate_network ==
    /\ UNCHANGED <<mainVars, promptVars>>
    /\ CanCall
    /\ \E conn \in Connections :
         LeafDone("validate_network",
                  validate_network(validation_errors, conn), 0, "", None)

call_validate_imports ==
    /\ UNCHANGED <<mainVars, promptVars>>
    /\ CanCall
    /\ \E imp \in [Modules -> ImportOutcomes], ms \in ModuleLists \ {None} :
         LET r == validate_imports(validation_errors, imp, Value(ms)) IN
         LeafDone("validate_imports", r, Len(r.missing), "", None)

call_validate_os ==
    /\ UNCHANGED <<mainVars, promptVars>>
    /\ CanCall
    /\ \E cur \in OSNames, sup \in OSLists :
         LeafDone("validate_os", validate_os(validation_errors, cur, sup),
                  0, cur, sup)

call_validate_disk_space ==
    /\ UNCHANGED <<mainVars, promptVars>>
    /\ CanCall
    /\ \E d \in DiskEnvs, min \in MinGbs :
         LeafDone("validate_disk_space",
                  validate_disk_space(validation_errors, d, min), 0, "", None)

\* ---- validate_system, statement by statement ----------------------------

call_validate_system ==
    /\ UNCHANGED <<mainVars, promptVars>>
    /\ CanCall
    /\ \E min \in MinVersions, cmds \in CommandLists, ms \in ModuleLists,
          sup \in OSLists :
         sys' = [pos |-> "info", min_python_version |-> min,
                 required_commands |-> cmds, required_modules |-> ms,
                 supported_os |-> sup, i |-> 1, before |-> validation_errors,
                 fails |-> failedCalls, miss |-> missingNames,
                 osApplied |-> FALSE]
    /\ UNCHANGED <<validation_errors, call, failedCalls, missingNames>>

\* sys_info = self.get_system_info() and its logging
sys_info ==
    /\ UNCHANGED <<mainVars, promptVars>>
    /\ sys.pos = "info"
    /\ \E cwdOk \in BOOLEAN :
         LET r == get_system_info(validation_errors, cwdOk) IN
         IF r.exc = "none"
           THEN /\ sys' = [sys EXCEPT !.pos = "version"]
                /\ UNCHANGED <<validation_errors, call, failedCalls,
                               missingNames>>
           ELSE /\ Tallied("get_system_info", r, 0)
                /\ call' = SysCallRecord(r)
                /\ sys' = SysIdle

\* self.validate_python_version(min_python_version)
sys_version ==
    /\ UNCHANGED <<mainVars, promptVars>>
    /\ sys.pos = "version"
    /\ \E cur \in CurrentVersions :
         SysLeaf("validate_python_version",
                 validate_python_version(validation_errors, cur,
                                         sys.min_python_version),
                 0, "", None, [sys EXCEPT !.pos = "os"])

\* if supported_os: self.validate_os(supported_os)
sys_os ==
    /\ UNCHANGED <<mainVars, promptVars>>
    /\ sys.pos = "os"
    /\ IF Truthy(sys.supported_os)
         THEN \E cur \in OSNames :
                SysLeaf("validate_os",
                        validate_os(validation_errors, cur, sys.supported_os),
                        0, cur, sys.supported_os,
                        [sys EXCEPT !.pos = "commands", !.osApplied = TRUE])
         ELSE /\ sys' = [sys EXCEPT !.pos = "commands"]
              /\ UNCHANGED <<validation_errors, call, failedCalls,
                             missingNames>>

\* if required_commands: for cmd in required_commands:
\*     self.validate_command(cmd)
sys_commands ==
    /\ UNCHANGED <<mainVars, promptVars>>
    /\ sys.pos = "commands"
    /\ IF Truthy(sys.required_commands)
            /\ sys.i <= Len(Value(sys.required_commands))
         THEN \E avail \in SUBSET Commands :
                SysLeaf("validate_command",
                        validate_command(validation_errors, avail,
                                         Value(sys.required_commands)[sys.i],
                                         None),
                        0, "", None, [sys EXCEPT !.i = sys.i + 1])
         ELSE /\ sys' = [sys EXCEPT !.pos = "modules"]
              /\ UNCHANGED <<validation_errors, call, failedCalls,
                             missingNames>>

\* if required_modules: self.validate_imports(required_modules)
sys_modules ==
    /\ UNCHANGED <<mainVars, promptVars>>
    /\ sys.pos = "modules"
    /\ IF Truthy(sys.required_modules)
         THEN \E imp \in [Modules -> ImportOutcomes] :
                LET r == validate_imports(validation_errors, imp,
                                          Value(sys.required_modules)) IN
                SysLeaf("validate_imports", r, Len(r.missing), "", None,
                        [sys EXCEPT !.pos = "path"])
         ELSE /\ sys' = [sys EXCEPT !.pos = "path"]
              /\ UNCHANGED <<validation_errors, call, failedCalls,
                             missingNames>>

\* self.validate_path(Path.cwd(), "directory", check_writable=True)
sys_path ==
    /\ UNCHANGED <<mainVars, promptVars>>
    /\ sys.pos = "path"
    /\ \E p \in PathEnvs :
         SysLeaf("validate_path",
                 validate_path(validation_errors, p, "directory", TRUE),
                 0, "", None, [sys EXCEPT !.pos = "network"])

\* if not self.validate_network(): log a warning
sys_network ==
    /\ UNCHANGED <<mainVars, promptVars>>
    /\ sys.pos = "network"
    /\ \E conn \in Connections :
         SysLeaf("validate_network",
                 validate_network(validation_errors, conn),
                 0, "", None, [sys EXCEPT !.pos = "disk"])

\* self.validate_disk_space(Path.cwd(), min_gb=0.1)
sys_disk ==
    /\ UNCHANGED <<mainVars, promptVars>>
    /\ sys.pos = "disk"
    /\ \E d \in DiskEnvs :
         SysLeaf("validate_disk_space",
                 validate_disk_space(validation_errors, d, 1),
                 0, "", None, [sys EXCEPT !.pos = "verdict"])

\* if self.validation_errors > 0: return False, else: return True
sys_verdict ==
    /\ UNCHANGED <<mainVars, promptVars>>
    /\ sys.pos = "verdict"
    /\ UNCHANGED <<validation_errors, failedCalls, missingNames>>
    /\ call' = SysCallRecord(Return(validation_errors,
                                    system_verdict(validation_errors)))
    /\ sys' = SysIdle

(***************************************************************************)
(*                        prompt_with_timeout                              *)
(***************************************************************************)

\* Largest timeout a prompt is called with, and number of prompt calls.
MaxTimeout == 2
MaxPrompts == 2

Lines == {"y", ""}
Defaults == {"n"}
NoLine == "<no line>"
NoResult == [kind |-> "none", value |-> ""]

\* hasattr(signal, 'SIGALRM')
HasSIGALRM == platform = "posix"

\* Positions of prompt_with_timeout inside its try block: before the alarm
\* is armed, inside input(), and between input() and signal.alarm(0).
TryPcs == {"arm", "input", "cancel"}

\* The caller invokes prompt_with_timeout(prompt, timeout, default); the
\* prompt text is printed.
prompt_call ==
    /\ UNCHANGED <<mainVars, validatorVars>>
    /\ ppc = "caller"
    /\ prompts < MaxPrompts
    /\ \E t \in 0..MaxTimeout, d \in Defaults :
         pargs' = [timeout |-> t, default |-> d]
    /\ ppc' = "arm"
    /\ lineRead' = NoLine
    /\ caught' = "none"
    /\ presult' = NoResult
    /\ prompts' = prompts + 1
    /\ lateTimeout' = FALSE
    /\ UNCHANGED <<alarm, handlerSet, platform>>

\* signal.signal(SIGALRM, timeout_handler); signal.alarm(timeout), where
\* SIGALRM exists.  signal.alarm(0) arms nothing.
prompt_arm ==
    /\ UNCHANGED <<mainVars, validatorVars>>
    /\ ppc = "arm"
    /\ IF HasSIGALRM
         THEN handlerSet' = TRUE /\ alarm' = pargs.timeout
         ELSE UNCHANGED <<handlerSet, alarm>>
    /\ ppc' = "input"
    /\ UNCHANGED <<platform, pargs, lineRead, caught, presult, lateTimeout,
                   prompts>>

\* input() returns a line.
input_line ==
    /\ UNCHANGED <<mainVars, validatorVars>>
    /\ ppc = "input"
    /\ \E l \in Lines : lineRead' = l
    /\ ppc' = "cancel"
    /\ UNCHANGED <<alarm, handlerSet, platform, pargs, caught, presult,
                   lateTimeout, prompts>>

\* input() meets the end of standard input: EOFError, which the except
\* clause does not name, leaves prompt_with_timeout.
input_eof ==
    /\ UNCHANGED <<mainVars, validatorVars>>
    /\ ppc = "input"
    /\ presult' = [kind |-> "raised", value |-> "EOFError"]
    /\ ppc' = "caller"
    /\ UNCHANGED <<alarm, handlerSet, platform, pargs, lineRead, caught,
                   lateTimeout, prompts>>

\* The user interrupts the prompt: KeyboardInterrupt inside the try block.
prompt_interrupt ==
    /\ UNCHANGED <<mainVars, validatorVars>>
    /\ ppc \in TryPcs
    /\ caught' = "KeyboardInterrupt"
    /\ ppc' = "except"
    /\ UNCHANGED <<alarm, handlerSet, platform, pargs, lineRead, presult,
                   lateTimeout, prompts>>

\* signal.alarm(0) where SIGALRM exists, then "return response".
prompt_return ==
    /\ UNCHANGED <<mainVars, validatorVars>>
    /\ ppc = "cancel"
    /\ IF HasSIGALRM THEN alarm' = 0 ELSE UNCHANGED alarm
    /\ presult' = [kind |-> "returned", value |-> lineRead]
    /\ ppc' = "caller"
    /\ UNCHANGED <<handlerSet, platform, pargs, lineRead, caught, lateTimeout,
                   prompts>>

\* except (TimeoutError, KeyboardInterrupt): print, warn, "return default".
prompt_except ==
    /\ UNCHANGED <<mainVars, validatorVars>>
    /\ ppc = "except"
    /\ presult' = [kind |-> "returned", value |-> pargs.default]
    /\ ppc' = "caller"
    /\ UNCHANGED <<alarm, handlerSet, platform, pargs, lineRead, caught,
                   lateTimeout, prompts>>

\* A second passes.  When the pending alarm expires SIGALRM is delivered and
\* timeout_handler raises TimeoutError at the statement then running: inside
\* the try block the except clause catches it, inside the except clause it
\* leaves prompt_with_timeout, after the call it is raised in the caller.
tick ==
    /\ UNCHANGED <<mainVars, validatorVars>>
    /\ alarm > 0
    /\ alarm' = alarm - 1
    /\ IF alarm' > 0 THEN UNCHANGED <<ppc, caught, presult, lateTimeout>>
       ELSE IF ppc \in TryPcs
         THEN /\ ppc' = "except"
              /\ caught' = "TimeoutError"
              /\ UNCHANGED <<presult, lateTimeout>>
       ELSE IF ppc = "except"
         THEN /\ ppc' = "caller"
              /\ presult' = [kind |-> "raised", value |-> "TimeoutError"]
              /\ UNCHANGED <<caught, lateTimeout>>
       ELSE /\ lateTimeout' = TRUE
            /\ UNCHANGED <<ppc, caught, presult>>
    /\ UNCHANGED <<handlerSet, platform, pargs, lineRead, prompts>>

(***************************************************************************)
(*                          SPECIFICATIONS                                 *)
(***************************************************************************)

\* main after argument parsing and logging set-up, on any file system.
InitMain ==
    /\ fs \in {F \in [Nodes -> Kinds] : WellFormed(F)}
    /\ ro \in SUBSET {n \in {Cwd, <<"d">>} : Kind(fs, n) = "dir"}
    /\ written = {}
    /\ fs0 = fs
    /\ args \in [input : InputPaths, output : OutputPaths, force : BOOLEAN]
    /\ pc = "try"
    /\ exc = "none"
    /\ vres = "none"
    /\ processInvoked = FALSE
    /\ cleanupCount = 0
    /\ ret = -1
    /\ exitCode = -1
    \* no validator is in use and nothing prompts
    /\ validation_errors = 0
    /\ call = CallRecord("__init__", Return(0, TRUE), 0, "", None)
    /\ sys = SysIdle
    /\ failedCalls = 0
    /\ missingNames = 0
    /\ ppc = "idle"
    /\ alarm = 0
    /\ handlerSet = FALSE
    /\ platform = "posix"
    /\ pargs = [timeout |-> 0, default |-> "n"]
    /\ lineRead = NoLine
    /\ caught = "none"
    /\ presult = NoResult
    /\ lateTimeout = FALSE
    /\ prompts = 0

NextMain ==
    \/ main_try
    \/ validate_inputs_input
    \/ validate_inputs_mkdir
    \/ validate_inputs_output
    \/ process_data_start
    \/ process_data_write
    \/ KeyboardInterrupt
    \/ main_except
    \/ main_finally
    \/ main_return

\* A fresh validator: __init__ sets validation_errors to 0.
InitValidator ==
    /\ validation_errors = 0
    /\ call = CallRecord("__init__", Return(0, TRUE), 0, "", None)
    /\ sys = SysIdle
    /\ failedCalls = 0
    /\ missingNames = 0
    \* main is not running and nothing prompts
    /\ fs = [n \in Nodes |-> "none"]
    /\ ro = {}
    /\ written = {}
    /\ fs0 = [n \in Nodes |-> "none"]
    /\ args = [input |-> <<"in">>, output |-> <<"f">>, force |-> FALSE]
    /\ pc = "idle"
    /\ exc = "none"
    /\ vres = "none"
    /\ processInvoked = FALSE
    /\ cleanupCount = 0
    /\ ret = -1
    /\ exitCode = -1
    /\ ppc = "idle"
    /\ alarm = 0
    /\ handlerSet = FALSE
    /\ platform = "posix"
    /\ pargs = [timeout |-> 0, default |-> "n"]
    /\ lineRead = NoLine
    /\ caught = "none"
    /\ presult = NoResult
    /\ lateTimeout = FALSE
    /\ prompts = 0

NextValidator ==
    \/ call_validate_python_version
    \/ call_validate_command
    \/ call_validate_path
    \/ call_validate_network
    \/ call_validate_imports
    \/ call_validate_os
    \/ call_validate_disk_space
    \/ call_validate_system
    \/ sys_info
    \/ sys_version
    \/ sys_os
    \/ sys_commands
    \/ sys_modules
    \/ sys_path
    \/ sys_network
    \/ sys_disk
    \/ sys_verdict

\* A process that has not prompted yet: no alarm pending, default handler.
InitPrompt ==
    /\ ppc = "caller"
    /\ alarm = 0
    /\ handlerSet = FALSE
    /\ platform \in {"posix", "windows"}
    /\ pargs = [timeout |-> 0, default |-> "n"]
    /\ lineRead = NoLine
    /\ caught = "none"
    /\ presult = NoResult
    /\ lateTimeout = FALSE
    /\ prompts = 0
    \* main is not running and no validator is in use
    /\ fs = [n \in Nodes |-> "none"]
    /\ ro = {}
    /\ written = {}
    /\ fs0 = [n \in Nodes |-> "none"]
    /\ args = [input |-> <<"in">>, output |-> <<"f">>, force |-> FALSE]
    /\ pc = "idle"
    /\ exc = "none"
    /\ vres = "none"
    /\ processInvoked = FALSE
    /\ cleanupCount = 0
    /\ ret = -1
    /\ exitCode = -1
    /\ validation_errors = 0
    /\ call = CallRecord("__init__", Return(0, TRUE), 0, "", None)
    /\ sys = SysIdle
    /\ failedCalls = 0
    /\ missingNames = 0

NextPrompt ==
    \/ prompt_call
    \/ prompt_arm
    \/ input_line
    \/ input_eof
    \/ prompt_interrupt
    \/ prompt_return
    \/ prompt_except
    \/ tick

\* One run of main of the script skeleton.
SpecMain == InitMain /\ [][NextMain]_vars

\* Calls on one ScriptValidator.
SpecValidator == InitValidator /\ [][NextValidator]_vars

\* Calls of prompt_with_timeout and the code that runs between them.
SpecPrompt == InitPrompt /\ [][NextPrompt]_vars

(***************************************************************************)
(*                             PROPERTIES                                  *)
(***************************************************************************)

\* ---- script skeleton (SpecMain) -----------------------------------------

\* C1: main returns 0 when validation and processing both completed without
\* an exception, 130 when a KeyboardInterrupt was raised inside the try
\* block, 1 when any other exception was raised there, and nothing else;
\* before it returns it has handed no exit code to its caller.
C1_ExitCodes ==
    /\ pc # "done" => exitCode = -1
    /\ pc = "done" =>
         /\ exitCode \in {0, 1, 130}
         /\ exitCode = 0 <=> exc = "none"
         /\ exitCode = 130 <=> exc = "KeyboardInterrupt"
         /\ exitCode = 1 <=> exc \in ExceptionClasses
         /\ exc = "none" => vres = "True" /\ processInvoked /\ written # {}

\* The run was interrupted while process_data was running; main returned.
C1_Witness ==
    pc = "done" /\ exitCode = 130 /\ processInvoked /\ vres = "True"

\* C2: cleanup_resources runs exactly once on every run: not while the try
\* block or an except clause is still running, and before main returns,
\* whether the run succeeded, failed or was interrupted.
C2_CleanupOnce ==
    /\ pc \in GuardedPcs \cup {"except", "finally"} => cleanupCount = 0
    /\ pc \in {"return", "done"} => cleanupCount = 1
    /\ exitCode # -1 => cleanupCount = 1

\* A failed run (validation rejected the output) that has returned.
C2_Witness ==
    pc = "done" /\ exc = "ValueError" /\ cleanupCount = 1 /\ exitCode = 1

\* The file system is still as validate_inputs left it.
ValidationEnded == vres # "none" /\ written = {}

\* The condition under which validate_inputs is to reject.
MustReject ==
    \/ ~Exists(fs, args.input)
    \/ Exists(fs, args.output) /\ ~args.force

CreatedDirs == {n \in Nodes : fs[n] = "dir" /\ fs0[n] # "dir"}

\* C4: when validate_inputs rejects, the run has changed nothing on the file
\* system (no output written, no directory created) and process_data is
\* never invoked; directories are created only on runs whose validation
\* does not fail.
C4_RejectChangesNothing ==
    /\ vres = "ValueError" => fs = fs0 /\ written = {} /\ ~processInvoked
    /\ CreatedDirs # {} => vres \in {"none", "True"}

\* ---- environment validator (SpecValidator) ------------------------------

\* C5: validate_system returns true iff the tally is zero when it ends,
\* whatever was counted before the call; on a fresh validator whose checks
\* all pass the tally stays zero and the call returns true.
C5_SystemVerdict ==
    (call.name = "validate_system" /\ call.exc = "none") =>
        /\ call.ret <=> validation_errors = 0
        /\ (call.before = 0 /\ call.fails = 0 /\ call.miss = 0)
             => (validation_errors = 0 /\ call.ret)

\* validate_system returned false although every check of this call passed:
\* the tally held a failure of an earlier call.
C5_Witness ==
    /\ call.name = "validate_system" /\ call.exc = "none"
    /\ ~call.ret /\ call.before > 0 /\ call.fails = 0 /\ call.miss = 0

\* C6: the tally is the number of version/command/path/OS/disk calls that
\* returned false plus the number of module names reported missing; a call
\* that returns true leaves it unchanged, a failing version/command/path/
\* OS/disk call raises it by exactly one, validate_network never changes it.
C6_TallyCounts ==
    /\ validation_errors = failedCalls + missingNames
    /\ (call.exc = "none" /\ call.name = "validate_network")
         => validation_errors = call.before
    /\ (call.exc = "none" /\ call.name \in CountedChecks \cup {"validate_imports"}
          /\ call.ret)
         => validation_errors = call.before
    /\ (call.exc = "none" /\ call.name \in CountedChecks /\ ~call.ret)
         => validation_errors = call.before + 1

\* After failed checks and missing modules were counted, a network check
\* fails.
C6_Witness ==
    /\ failedCalls > 0 /\ missingNames > 0
    /\ call.name = "validate_network" /\ ~call.ret

\* C7: no check method and no validate_system call raises: each call ends
\* by returning a boolean.
C7_NeverRaises == call.exc = "none"

\* C9: validate_os returns true iff the current OS name is in the accepted
\* list the caller passed, the empty list included, and raises the tally by
\* one exactly when it is not; validate_system applies the check to the
\* list it is given.
C9_OsMembership ==
    /\ (call.name = "validate_os" /\ call.exc = "none"
          /\ call.os_supported # None) =>
         LET member == InList(call.os_current, Value(call.os_supported)) IN
         /\ call.ret <=> member
         /\ validation_errors = call.before + (IF member THEN 0 ELSE 1)
    /\ (call.name = "validate_system" /\ call.exc = "none"
          /\ call.osGiven # None) => call.osApplied

\* ---- prompt_with_timeout (SpecPrompt) -----------------------------------

\* A call of prompt_with_timeout has ended.
PromptEnded == ppc = "caller" /\ presult.kind # "none"

\* C8: every call of prompt_with_timeout returns: the default when no line
\* was read (timeout, interruption), the line when one was read and the
\* prompt was not interrupted.
C8_PromptResult ==
    PromptEnded =>
        /\ presult.kind = "returned"
        /\ lineRead = NoLine => presult.value = pargs.default
        /\ (lineRead # NoLine /\ caught # "KeyboardInterrupt")
             => presult.value = lineRead

\* C10: where alarm signals exist, once prompt_with_timeout has returned no
\* alarm it armed is pending, and its handler never raises TimeoutError in
\* the code that runs after the call.
C10_NoPendingAlarm ==
    (HasSIGALRM /\ PromptEnded /\ presult.kind = "returned") =>
        alarm = 0 /\ ~lateTimeout

=============================================================================
